---- MODULE Spec2Model ----
(***************************************************************************)
(* A model of the DOJ dataset downloader (doj_2026.py) and of its two      *)
(* predecessors (doj_rip.py, doj_fix_missing.py).                          *)
(*                                                                         *)
(* The state is the file system of one dataset (index document, its        *)
(* temporary sibling, resume marker, downloaded files, '.part' files), the *)
(* remote listing, and the memory of the one process that may be running.  *)
(* One action models one stretch of code between two points at which the   *)
(* process can be stopped from outside (a file-system call, an await).     *)
(***************************************************************************)
EXTENDS Integers, Sequences, FiniteSets, TLC

VARIABLES
    \* ---- file system of the dataset (survives the process)
    indexFile,      \* the document at index_data<n>.json
    indexTmp,       \* the document at index_data<n>.json.tmp
    indexBad,       \* the document at index_data<n>.json.corrupt
    resumeFile,     \* resume_data<n>.txt: "absent", "empty" or a page number
    local,          \* local[f]: content at out_dir/f
    part,           \* part[f]: content at out_dir/f.part
    \* ---- the environment (external collaborators)
    site,           \* site[p]: the links the listing page p shows
    now,            \* the clock read by datetime.now(), in seconds
    \* ---- memory of the running process
    pc,             \* position of the process; "idle" when none runs
    mode,           \* "scan", "download" or "sync"
    idx,            \* the in-memory index
    page_num,       \* scan_dataset_pages: page_num
    pages_no_new,   \* scan_dataset_pages: pages_no_new
    queue,          \* download_missing_from_index: the files still to visit
    cur,            \* the file being handled
    resp,           \* status of the response being handled
    ret,            \* where safe_json_save returns to
    last_num,       \* doj_rip.py: last_num, 0 standing for None
    \* ---- bookkeeping of the verification (never read by the program)
    fetches,        \* fetches[f]: requests issued for f so far
    faults,         \* interruptions and unexpected failures so far
    obs             \* observations of the last steps, see ObsInit

vars == <<indexFile, indexTmp, indexBad, resumeFile, local, part, site, now, pc, mode, idx,
          page_num, pages_no_new, queue, cur, resp, ret, last_num, fetches, faults,
          obs>>

disk == <<indexFile, indexTmp, indexBad, resumeFile, local, part>>
scanMem == <<page_num, pages_no_new>>
dlMem == <<queue, cur, resp>>
\* What no step of doj_2026.py changes: the site, the clock, and the memory of
\* doj_rip.py.
fixed == <<site, now, last_num>>

----------------------------------------------------------------------------
(* Program constants *)

\* doj_2026.py:45
MAX_PAGES_WITH_NO_NEW_PDFS == 6
\* doj_2026.py:49
MAX_DOWNLOAD_RETRIES == 3

(* Bounds of the model *)

\* doj_2026.py:46 sets 200000; the model scales the ceiling down so that the
\* scanner can reach it.
MAX_PAGES_HARD_CAP == 8
\* doj_rip.py:12 and doj_fix_missing.py:12 set 220; the model scales the last
\* page down.
END_PAGE == 3
\* The last second the clock reaches.
MaxClock == 2
\* doj_2026.py:26 sets DATASET_RANGE to range(1, 12); the model has the
\* datasets 1 .. LAST_DATASET.
LAST_DATASET == 3
\* External interruptions (kill, Ctrl-C) and unexpected failures (a timeout
\* of the Lister or of the Fetcher) in one behaviour.
MaxFaults == 1

----------------------------------------------------------------------------
(* File names and links *)

F1 == "EFTA00000001.pdf"
F2 == "EFTA00000002.pdf"
OTHER_PDF == "notes.pdf"
\* Number 1 again, with less padding (the pattern of extract_file_num takes
\* any number of zeros); no listing of Sites shows it.
F1B == "EFTA01.pdf"

EftaNames == {F1, F2}
AllNames == EftaNames \cup {F1B, OTHER_PDF}

\* extract_file_num: the number after EFTA0*, 0 standing for None (no match).
extract_file_num(filename) ==
    CASE filename = F1 -> 1
      [] filename = F2 -> 2
      [] filename = F1B -> 1
      [] OTHER -> 0

\* Lexical rank of a file name (Python's str ordering), for sort_key ties.
LexRank(filename) ==
    CASE filename = F1 -> 1
      [] filename = F2 -> 2
      [] filename = F1B -> 3
      [] OTHER -> 4

Link(n, u) == [name |-> n, url |-> u]

----------------------------------------------------------------------------
(* The index document *)

\* A key that is not in idx["files"].
NoRec == [present |-> FALSE]

\* The record upsert_index_entry creates for a file never seen before
\* (sha256 is always None in this program and is left out; 0 stands for None
\* in downloaded_at and bytes, timestamps being at least 1).
NewRec(url, page_num_, t) ==
    [present |-> TRUE, url |-> url, first_seen |-> t, last_seen |-> t,
     page |-> page_num_, downloaded |-> FALSE, downloaded_at |-> 0,
     bytes |-> 0, attempts |-> 0, last_error |-> "None"]

\* init_index_structure of an empty document.
FreshIndex == [last_scan_page |-> 0, files |-> [f \in AllNames |-> NoRec]]

\* What a path holds: nothing, an unparsable (partly written) document, or a
\* complete document.
Absent == [kind |-> "absent", data |-> FreshIndex]
Partial == [kind |-> "partial", data |-> FreshIndex]
Doc(d) == [kind |-> "doc", data |-> d]

\* A mutant of upsert_index_entry: a file seen again is stamped as first seen.
upsert_restamps(files, filename, url, page_num_, t) ==
    IF ~files[filename].present
    THEN [isNew |-> TRUE,
          files |-> [files EXCEPT ![filename] = NewRec(url, page_num_, t)]]
    ELSE [isNew |-> FALSE,
          files |-> [files EXCEPT ![filename].url = url,
                                  ![filename].first_seen = t,
                                  ![filename].last_seen = t,
                                  ![filename].page = page_num_]]

\* A mutant of upsert_index_entry: an existing record is replaced by a new one.
upsert_resets(files, filename, url, page_num_, t) ==
    [isNew |-> ~files[filename].present,
     files |-> [files EXCEPT ![filename] = NewRec(url, page_num_, t)]]

\* upsert_index_entry: the files mapping after the call and the value returned.
upsert_index_entry(files, filename, url, page_num_, t) ==
    IF ~files[filename].present
    THEN [isNew |-> TRUE,
          files |-> [files EXCEPT ![filename] = NewRec(url, page_num_, t)]]
    ELSE [isNew |-> FALSE,
          files |-> [files EXCEPT ![filename].url = url,
                                  ![filename].last_seen = t,
                                  ![filename].page = page_num_]]

\* Lines 338-344 of scan_dataset_pages: the upserts of one page's links, in
\* order, and the number of them that returned True.
RECURSIVE UpsertAll(_, _, _, _)
UpsertAll(files, pdfs, page_num_, t) ==
    IF pdfs = <<>> THEN [files |-> files, new_this_page |-> 0]
    ELSE LET l == Head(pdfs)
         IN IF extract_file_num(l.name) = 0
            THEN UpsertAll(files, Tail(pdfs), page_num_, t)
            ELSE LET u == upsert_index_entry(files, l.name, l.url, page_num_, t)
                     r == UpsertAll(u.files, Tail(pdfs), page_num_, t)
                 IN [files |-> r.files,
                     new_this_page |-> r.new_this_page + (IF u.isNew THEN 1 ELSE 0)]

----------------------------------------------------------------------------
(* The remote listing *)

Pages == 1 .. (MAX_PAGES_HARD_CAP + 1)

\* A listing that shows F1 on page a (and again, under another URL, on the
\* page after it), a PDF that is not an EFTA file beside it, and F2 on page
\* b; 0 for "nowhere".
Listing(a, b) ==
    [p \in Pages |->
        (IF p = a THEN <<Link(F1, "A"), Link(OTHER_PDF, "A")>> ELSE <<>>)
        \o (IF p = b THEN <<Link(F2, "A")>> ELSE <<>>)
        \o (IF a > 0 /\ p = a + 1 THEN <<Link(F1, "B")>> ELSE <<>>)]

Sites == {Listing(a, b) : a \in {0, 1}, b \in {0, 2}}

----------------------------------------------------------------------------
(* Files on disk *)

\* Content of a path that holds bytes: "absent", "partial" (the file exists
\* and holds less than a complete response body) or "complete".
getsize(content) == IF content = "complete" THEN 2 ELSE 1

NoMarker == [kind |-> "absent", n |-> 0]
EmptyMarker == [kind |-> "empty", n |-> 0]
Marker(n) == [kind |-> "num", n |-> n]

\* load_resume_page: the page in the state file, 0 standing for None (no
\* file, an unreadable one, or a number below 1).
load_resume_page(f) == IF f.kind = "num" /\ f.n >= 1 THEN f.n ELSE 0

\* safe_json_load followed by init_index_structure.
safe_json_load(f) == IF f.kind = "doc" THEN f.data ELSE FreshIndex

\* A mutant of start_page: the resume marker is not looked at.
start_page_of_index(resume_page, d) ==
    IF d.last_scan_page > 1 THEN d.last_scan_page ELSE 1

\* Line 302: resume_page or max(1, int(last_scan_page) or 1).
start_page(resume_page, d) ==
    IF resume_page # 0 THEN resume_page
    ELSE IF d.last_scan_page > 1 THEN d.last_scan_page ELSE 1

----------------------------------------------------------------------------
(* Bookkeeping *)

\*  began    the last step was the start of a scan run
\*  intr     page_num of the scan run that was interrupted last (0: none),
\*           until the next scan run starts
\*  intrMark the last page of which that run had written the marker (0: none)
\*  zeroRun  pages scanned last in this run, in a row, that listed no file
\*           missing from the index
\*  stop     why the scan loop of this run was left
\*  att0     attempts of cur before the download attempt in progress
\*  clean    clean[f]: every request issued for f so far was answered, and
\*           by a failure status
\*  auth     the file whose request was answered last, if by a 401 ("none"
\*           otherwise), in doj_rip.py and doj_fix_missing.py
\*  renewed  a session has been obtained since that 401
\*  first    the files of the index when the first of two scans of the same
\*           listing had ended
\*  isNew    what the last call of upsert_index_entry returned
\*  news     the calls of upsert_index_entry in the second of the two scans
\*           that returned True
\*  cut      the file whose request was in flight when the process was
\*           stopped last ("none" once the next process has started)
\*  chosen   the datasets selected for this run of main, in the order of the
\*           loop
\*  started  the datasets for which process_dataset has been called
\*  start    the page at which the scan run in progress has started (0 when
\*           none is)
\*  found    the scan run in progress has upserted a file that was new
\*  failed   the files a request of this run of doj_rip.py was answered for
\*           by a failure status
\*  ripAt    the page that was in flight (its marker being written, or
\*           written) when doj_rip.py was stopped last, 0 for none, until
\*           the next run starts
\*  ripMarked  the marker of that page had been written
\*  acted    the files this download pass has acted on, by a request or by
\*           a reconciliation, in the order of the actions
\*  inserted the keys of idx["files"] in the order the dict holds them,
\*           where the download order is studied (idx.files is a function
\*           and has no order)
ObsInit == [began |-> FALSE, intr |-> 0, intrMark |-> 0, zeroRun |-> 0,
            stop |-> "none", att0 |-> 0, clean |-> [f \in AllNames |-> TRUE],
            auth |-> "none", renewed |-> FALSE,
            first |-> [f \in AllNames |-> NoRec], isNew |-> FALSE, news |-> 0,
            cut |-> "none", chosen |-> <<>>, started |-> <<>>,
            start |-> 0, found |-> FALSE,
            failed |-> {}, ripAt |-> 0, ripMarked |-> FALSE,
            acted |-> <<>>, inserted |-> <<>>]

\* The memory of a process that does not run.
NoProcess ==
    /\ pc' = "idle"
    /\ mode' = "none"
    /\ idx' = FreshIndex
    /\ page_num' = 0
    /\ pages_no_new' = 0
    /\ queue' = <<>>
    /\ cur' = "none"
    /\ resp' = 0
    /\ ret' = "none"
    /\ last_num' = 0

Init ==
    /\ indexFile = Absent
    /\ indexTmp = Absent
    /\ indexBad = Absent
    /\ resumeFile = NoMarker
    /\ local = [f \in AllNames |-> "absent"]
    /\ part = [f \in AllNames |-> "absent"]
    /\ site \in Sites
    /\ now = 1
    /\ pc = "idle"
    /\ mode = "none"
    /\ idx = FreshIndex
    /\ page_num = 0
    /\ pages_no_new = 0
    /\ queue = <<>>
    /\ cur = "none"
    /\ resp = 0
    /\ ret = "none"
    /\ last_num = 0
    /\ fetches = [f \in AllNames |-> 0]
    /\ faults = 0
    /\ obs = ObsInit

----------------------------------------------------------------------------
(* doj_2026.py: process_dataset *)

\* A mutant of ProcessStart: a document that does not parse is left in place.
ProcessStartKeepsBad ==
    /\ pc = "idle"
    /\ \E m \in {"scan", "download", "sync"} :
        /\ mode' = m
        /\ pc' = IF m = "download" THEN "dl_begin" ELSE "scan_begin"
    /\ idx' = safe_json_load(indexFile)
    /\ obs' = [obs EXCEPT !.stop = "none", !.zeroRun = 0, !.cut = "none"]
    /\ UNCHANGED <<disk, fixed, scanMem, dlMem, ret, fetches, faults>>

\* Lines 448-463: the index is loaded (a document that does not parse is
\* moved aside to index_data<n>.json.corrupt, lines 79-87), and a session is
\* obtained.
ProcessStart ==
    /\ pc = "idle"
    /\ \E m \in {"scan", "download", "sync"} :
        /\ mode' = m
        /\ pc' = IF m = "download" THEN "dl_begin" ELSE "scan_begin"
    /\ idx' = safe_json_load(indexFile)
    /\ indexFile' = IF indexFile.kind = "partial" THEN Absent ELSE indexFile
    /\ indexBad' = IF indexFile.kind = "partial" THEN indexFile ELSE indexBad
    /\ obs' = [obs EXCEPT !.stop = "none", !.zeroRun = 0, !.cut = "none"]
    /\ UNCHANGED <<indexTmp, resumeFile, local, part, fixed, scanMem, dlMem,
                   ret, fetches, faults>>

----------------------------------------------------------------------------
(* doj_2026.py: safe_json_save, one action per file-system call *)

\* A mutant of SaveOpen: the document is written in place.
SaveOpenInPlace ==
    /\ pc = "save_open"
    /\ indexFile' = Partial
    /\ pc' = "save_write"
    /\ UNCHANGED <<indexTmp, indexBad, resumeFile, local, part, fixed, mode, idx,
                   scanMem, dlMem, ret, fetches, faults, obs>>

\* Line 92: open(tmp, "w") creates or truncates the temporary sibling.
SaveOpen ==
    /\ pc = "save_open"
    /\ indexTmp' = Partial
    /\ pc' = "save_write"
    /\ UNCHANGED <<indexBad, indexFile, resumeFile, local, part, fixed, mode, idx,
                   scanMem, dlMem, ret, fetches, faults, obs>>

\* Line 93 and the end of the with block: the document is written and closed.
SaveWrite ==
    /\ pc = "save_write"
    /\ indexTmp' = Doc(idx)
    /\ pc' = "save_replace"
    /\ UNCHANGED <<indexBad, indexFile, resumeFile, local, part, fixed, mode, idx,
                   scanMem, dlMem, ret, fetches, faults, obs>>

\* Line 94: os.replace(tmp, path).
SaveReplace ==
    /\ pc = "save_replace"
    /\ indexFile' = indexTmp
    /\ indexTmp' = Absent
    /\ pc' = ret
    /\ ret' = "none"
    /\ UNCHANGED <<indexBad, resumeFile, local, part, fixed, mode, idx, scanMem,
                   dlMem, fetches, faults, obs>>

----------------------------------------------------------------------------
(* doj_2026.py: scan_dataset_pages *)

\* The EFTA files a page lists that the index does not hold.
Unseen(files, pdfs) ==
    {pdfs[i].name : i \in 1 .. Len(pdfs)} \cap {f \in EftaNames : ~files[f].present}

\* A mutant of ScanBegin: the scan restarts at the page after the marker.
ScanBeginNextPage ==
    /\ pc = "scan_begin"
    /\ page_num' = start_page(load_resume_page(resumeFile), idx) + 1
    /\ pages_no_new' = 0
    /\ pc' = "scan_top"
    /\ obs' = [obs EXCEPT !.began = TRUE, !.start = page_num',
                          !.found = FALSE]
    /\ UNCHANGED <<disk, fixed, mode, idx, dlMem, ret, fetches, faults>>

\* Lines 301-307: the starting page.
ScanBegin ==
    /\ pc = "scan_begin"
    /\ page_num' = start_page(load_resume_page(resumeFile), idx)
    /\ pages_no_new' = 0
    /\ pc' = "scan_top"
    /\ obs' = [obs EXCEPT !.began = TRUE, !.start = page_num',
                          !.found = FALSE]
    /\ UNCHANGED <<disk, fixed, mode, idx, dlMem, ret, fetches, faults>>

\* Lines 310-312: the hard cap ends the loop.
ScanHardCap ==
    /\ pc = "scan_top"
    /\ page_num > MAX_PAGES_HARD_CAP
    /\ pc' = "scan_done"
    /\ obs' = [obs EXCEPT !.began = FALSE, !.intr = 0, !.intrMark = 0,
                          !.stop = "cap"]
    /\ UNCHANGED <<disk, fixed, mode, idx, scanMem, dlMem, ret, fetches,
                   faults>>

\* A mutant of ScanMarkerOpen: the loop goes on whatever the page number.
ScanMarkerOpenPastCap ==
    /\ pc = "scan_top"
    /\ resumeFile' = EmptyMarker
    /\ pc' = "scan_marker"
    /\ obs' = [obs EXCEPT !.began = FALSE, !.intr = 0, !.intrMark = 0]
    /\ UNCHANGED <<indexFile, indexTmp, indexBad, local, part, fixed, mode, idx,
                   scanMem, dlMem, ret, fetches, faults>>

\* Line 314, save_resume_page: open(state_file, "w") truncates the marker.
ScanMarkerOpen ==
    /\ pc = "scan_top"
    /\ page_num <= MAX_PAGES_HARD_CAP
    /\ resumeFile' = EmptyMarker
    /\ pc' = "scan_marker"
    /\ obs' = [obs EXCEPT !.began = FALSE, !.intr = 0, !.intrMark = 0]
    /\ UNCHANGED <<indexFile, indexTmp, indexBad, local, part, fixed, mode, idx,
                   scanMem, dlMem, ret, fetches, faults>>

\* Line 314, save_resume_page: the page number is written and the file closed.
ScanMarkerWrite ==
    /\ pc = "scan_marker"
    /\ resumeFile' = Marker(page_num)
    /\ pc' = "scan_goto"
    /\ UNCHANGED <<indexFile, indexTmp, indexBad, local, part, fixed, mode, idx,
                   scanMem, dlMem, ret, fetches, faults, obs>>

\* A mutant of streak_after: a page with nothing new counts twice.
streak_after_twice(streak, new_this_page) ==
    IF new_this_page = 0 THEN streak + 2 ELSE 0

\* The streak after a page: lines 346-351.
streak_after(streak, new_this_page) ==
    IF new_this_page = 0 THEN streak + 1 ELSE 0

\* A mutant of ScanPage: the index is not saved after the page.
ScanPageUnsaved ==
    /\ pc = "scan_goto"
    /\ LET r == UpsertAll(idx.files, site[page_num], page_num, now)
       IN /\ idx' = [last_scan_page |-> page_num, files |-> r.files]
          /\ pages_no_new' = streak_after(pages_no_new, r.new_this_page)
    /\ obs' = [obs EXCEPT
                 !.zeroRun =
                   IF Unseen(idx.files, site[page_num]) = {} THEN @ + 1 ELSE 0,
                 !.found = @ \/ Unseen(idx.files, site[page_num]) # {}]
    /\ pc' = "scan_saved"
    /\ UNCHANGED <<disk, fixed, mode, page_num, dlMem, ret, fetches, faults>>

\* Lines 315-358, up to the call of safe_json_save: the Lister returns the
\* page's links, they are upserted, the streak and the meta are updated.
ScanPage ==
    /\ pc = "scan_goto"
    /\ LET r == UpsertAll(idx.files, site[page_num], page_num, now)
       IN /\ idx' = [last_scan_page |-> page_num, files |-> r.files]
          /\ pages_no_new' = streak_after(pages_no_new, r.new_this_page)
    /\ obs' = [obs EXCEPT
                 !.zeroRun =
                   IF Unseen(idx.files, site[page_num]) = {} THEN @ + 1 ELSE 0,
                 !.found = @ \/ Unseen(idx.files, site[page_num]) # {}]
    /\ pc' = "save_open"
    /\ ret' = "scan_saved"
    /\ UNCHANGED <<disk, fixed, mode, page_num, dlMem, fetches, faults>>

\* Line 318: the Lister fails (a timeout, say); the handler of lines 476-483
\* saves the index and raises again.
ScanPageRaises ==
    /\ pc = "scan_goto"
    /\ faults < MaxFaults
    /\ faults' = faults + 1
    /\ pc' = "save_open"
    /\ ret' = "raised"
    /\ UNCHANGED <<disk, fixed, mode, idx, scanMem, dlMem, fetches, obs>>

\* A mutant of stop_scan: the scan stops one page late.
stop_scan_late(streak) == streak > MAX_PAGES_WITH_NO_NEW_PDFS

\* Line 360.
stop_scan(streak) == streak >= MAX_PAGES_WITH_NO_NEW_PDFS

\* Lines 360-362: the streak ends the loop.
ScanStop ==
    /\ pc = "scan_saved"
    /\ stop_scan(pages_no_new)
    /\ pc' = "scan_done"
    /\ obs' = [obs EXCEPT !.stop = "streak"]
    /\ UNCHANGED <<disk, fixed, mode, idx, scanMem, dlMem, ret, fetches,
                   faults>>

\* A mutant of ScanNext: the page after the next becomes the current one.
ScanNextSkips ==
    /\ pc = "scan_saved"
    /\ ~stop_scan(pages_no_new)
    /\ page_num' = page_num + 2
    /\ pc' = "scan_top"
    /\ UNCHANGED <<disk, fixed, mode, idx, pages_no_new, dlMem, ret,
                   fetches, faults, obs>>

\* Lines 364-365: the next page becomes the current one, then the pause.
ScanNext ==
    /\ pc = "scan_saved"
    /\ ~stop_scan(pages_no_new)
    /\ page_num' = page_num + 1
    /\ pc' = "scan_top"
    /\ UNCHANGED <<disk, fixed, mode, idx, pages_no_new, dlMem, ret,
                   fetches, faults, obs>>

\* Lines 465-474: after the scan, the download pass or the final save.
ScanDone ==
    /\ pc = "scan_done"
    /\ IF mode = "sync"
       THEN pc' = "dl_begin" /\ ret' = ret
       ELSE pc' = "save_open" /\ ret' = "done"
    /\ obs' = [obs EXCEPT !.start = 0, !.found = FALSE]
    /\ UNCHANGED <<disk, fixed, mode, idx, scanMem, dlMem, fetches, faults>>

----------------------------------------------------------------------------
(* doj_2026.py: download_missing_from_index *)

\* A mutant of KeyLess: the key is the file name alone.
KeyLessByName(a, b) == LexRank(a) < LexRank(b)

\* sort_key, lines 379-382: (n if n is not None else 10**18, fname); every
\* file number being below 10**18, the files with none sort last.
KeyLess(a, b) ==
    LET na == extract_file_num(a)
        nb == extract_file_num(b)
        ka == <<IF na = 0 THEN 1 ELSE 0, na, LexRank(a)>>
        kb == <<IF nb = 0 THEN 1 ELSE 0, nb, LexRank(b)>>
    IN \/ ka[1] < kb[1]
       \/ ka[1] = kb[1] /\ ka[2] < kb[2]
       \/ ka[1] = kb[1] /\ ka[2] = kb[2] /\ ka[3] < kb[3]

\* sorted(files.items(), key=sort_key), line 384.
RECURSIVE Sorted(_)
Sorted(S) ==
    IF S = {} THEN <<>>
    ELSE LET m == CHOOSE x \in S : \A y \in S \ {x} : KeyLess(x, y)
         IN <<m>> \o Sorted(S \ {m})

\* needs_download, lines 259-268.
needs_download(content, entry) ==
    IF entry.downloaded /\ content # "absent" THEN FALSE
    ELSE IF content # "absent" /\ ~entry.downloaded THEN FALSE
    ELSE TRUE

\* A mutant of to_reconcile: a local file is never taken for a download.
to_reconcile_never(content, entry) == FALSE

\* Line 392: the file exists and the index does not know.
to_reconcile(content, entry) == content # "absent" /\ ~entry.downloaded

\* Line 406.
budget_spent(entry) == entry.attempts >= MAX_DOWNLOAD_RETRIES

\* Lines 375-384: the order of the pass.
DlBegin ==
    /\ pc = "dl_begin"
    /\ queue' = Sorted({f \in AllNames : idx.files[f].present})
    /\ pc' = "dl_next"
    /\ obs' = [obs EXCEPT !.acted = <<>>]
    /\ UNCHANGED <<disk, fixed, mode, idx, scanMem, cur, resp, ret, fetches,
                   faults>>

\* Line 384 with nothing left, then lines 471-474: the final save.
DlFinish ==
    /\ pc = "dl_next"
    /\ queue = <<>>
    /\ pc' = "save_open"
    /\ ret' = "done"
    /\ cur' = "none"
    /\ UNCHANGED <<disk, fixed, mode, idx, scanMem, queue, resp, fetches,
                   faults, obs>>

\* Lines 392-401: the file is there and the record does not say so.
DlReconcile ==
    /\ pc = "dl_next"
    /\ queue # <<>>
    /\ LET f == Head(queue)
       IN /\ extract_file_num(f) # 0
          /\ to_reconcile(local[f], idx.files[f])
          /\ idx' = [idx EXCEPT !.files[f].downloaded = TRUE,
                                !.files[f].downloaded_at = now,
                                !.files[f].bytes = getsize(local[f])]
          /\ cur' = f
    /\ queue' = Tail(queue)
    /\ resp' = 0
    /\ pc' = "save_open"
    /\ ret' = "dl_next"
    /\ obs' = [obs EXCEPT !.acted = Append(@, Head(queue))]
    /\ UNCHANGED <<disk, fixed, mode, scanMem, fetches, faults>>

\* Lines 386-387, 403-407: nothing to do for this file.
DlSkip ==
    /\ pc = "dl_next"
    /\ queue # <<>>
    /\ LET f == Head(queue)
       IN \/ extract_file_num(f) = 0
          \/ /\ ~to_reconcile(local[f], idx.files[f])
             /\ \/ ~needs_download(local[f], idx.files[f])
                \/ budget_spent(idx.files[f])
    /\ queue' = Tail(queue)
    /\ cur' = "none"
    /\ resp' = 0
    /\ UNCHANGED <<disk, fixed, mode, idx, scanMem, ret, pc, fetches,
                   faults, obs>>

\* Lines 409-416 and 276-285: the attempt is counted in memory, a stale
\* '.part' is removed and the request is issued.
DlAttempt ==
    /\ pc = "dl_next"
    /\ queue # <<>>
    /\ LET f == Head(queue)
       IN /\ extract_file_num(f) # 0
          /\ ~to_reconcile(local[f], idx.files[f])
          /\ needs_download(local[f], idx.files[f])
          /\ ~budget_spent(idx.files[f])
          /\ idx' = [idx EXCEPT !.files[f].attempts = @ + 1]
          /\ part' = [part EXCEPT ![f] = "absent"]
          /\ fetches' = [fetches EXCEPT ![f] = @ + 1]
          /\ obs' = [obs EXCEPT !.att0 = idx.files[f].attempts,
                                 !.acted = Append(@, f)]
          /\ cur' = f
    /\ queue' = Tail(queue)
    /\ resp' = 0
    /\ pc' = "fetching"
    /\ UNCHANGED <<indexFile, indexTmp, indexBad, resumeFile, local, fixed, mode,
                   scanMem, ret, faults>>

\* Lines 285-288: the response is a success.
FetchOk ==
    /\ pc = "fetching"
    /\ resp' = 200
    /\ pc' = "part_open"
    /\ obs' = [obs EXCEPT !.clean[cur] = FALSE]
    /\ UNCHANGED <<disk, fixed, mode, idx, scanMem, queue, cur, ret,
                   fetches, faults>>

\* A mutant of FetchFails: a failure ends the pass.
FetchFailsEndsPass ==
    /\ pc = "fetching"
    /\ \E s \in {401, 404} :
        /\ resp' = s
        /\ idx' = [idx EXCEPT !.files[cur].last_error =
                      IF s = 401 THEN "HTTP 401" ELSE "HTTP 404"]
    /\ queue' = <<>>
    /\ pc' = "save_open"
    /\ ret' = "dl_next"
    /\ UNCHANGED <<disk, fixed, mode, scanMem, cur, fetches, faults, obs>>

\* Lines 293 and 433-436: the response is a failure; the error is recorded.
FetchFails ==
    /\ pc = "fetching"
    /\ \E s \in {401, 404} :
        /\ resp' = s
        /\ idx' = [idx EXCEPT !.files[cur].last_error =
                      IF s = 401 THEN "HTTP 401" ELSE "HTTP 404"]
    /\ pc' = "save_open"
    /\ ret' = "dl_next"
    /\ UNCHANGED <<disk, fixed, mode, scanMem, queue, cur, fetches, faults,
                   obs>>

\* A mutant of FetchRaises: the failure is propagated without a save.
FetchRaisesUnsaved ==
    /\ pc = "fetching"
    /\ faults < MaxFaults
    /\ faults' = faults + 1
    /\ pc' = "raised"
    /\ ret' = "none"
    /\ obs' = [obs EXCEPT !.clean[cur] = FALSE]
    /\ UNCHANGED <<disk, fixed, mode, idx, scanMem, dlMem, fetches>>

\* Line 285: the request fails without a response (a timeout); the handler of
\* lines 476-483 saves the index and raises again.
FetchRaises ==
    /\ pc = "fetching"
    /\ faults < MaxFaults
    /\ faults' = faults + 1
    /\ pc' = "save_open"
    /\ ret' = "raised"
    /\ obs' = [obs EXCEPT !.clean[cur] = FALSE]
    /\ UNCHANGED <<disk, fixed, mode, idx, scanMem, dlMem, fetches>>

\* Line 289: open(part_path, "wb").
PartOpen ==
    /\ pc = "part_open"
    /\ part' = [part EXCEPT ![cur] = "partial"]
    /\ pc' = "part_write"
    /\ UNCHANGED <<indexFile, indexTmp, indexBad, resumeFile, local, fixed, mode, idx,
                   scanMem, dlMem, ret, fetches, faults, obs>>

\* Line 290 and the end of the with block.
PartWrite ==
    /\ pc = "part_write"
    /\ part' = [part EXCEPT ![cur] = "complete"]
    /\ pc' = "part_replace"
    /\ UNCHANGED <<indexFile, indexTmp, indexBad, resumeFile, local, fixed, mode, idx,
                   scanMem, dlMem, ret, fetches, faults, obs>>

\* A mutant of PartReplace: a success clears the attempts of the record.
PartReplaceResets ==
    /\ pc = "part_replace"
    /\ local' = [local EXCEPT ![cur] = part[cur]]
    /\ part' = [part EXCEPT ![cur] = "absent"]
    /\ idx' = [idx EXCEPT !.files[cur].downloaded = TRUE,
                          !.files[cur].downloaded_at = now,
                          !.files[cur].last_error = "None",
                          !.files[cur].attempts = 0,
                          !.files[cur].bytes = getsize(part[cur])]
    /\ pc' = "save_open"
    /\ ret' = "dl_next"
    /\ UNCHANGED <<indexFile, indexTmp, indexBad, resumeFile, fixed, mode, scanMem,
                   dlMem, fetches, faults, obs>>

\* Lines 291 and 418-431: os.replace(part_path, out_path), then the record is
\* marked in memory.
PartReplace ==
    /\ pc = "part_replace"
    /\ local' = [local EXCEPT ![cur] = part[cur]]
    /\ part' = [part EXCEPT ![cur] = "absent"]
    /\ idx' = [idx EXCEPT !.files[cur].downloaded = TRUE,
                          !.files[cur].downloaded_at = now,
                          !.files[cur].last_error = "None",
                          !.files[cur].bytes = getsize(part[cur])]
    /\ pc' = "save_open"
    /\ ret' = "dl_next"
    /\ UNCHANGED <<indexFile, indexTmp, indexBad, resumeFile, fixed, mode, scanMem,
                   dlMem, fetches, faults, obs>>

----------------------------------------------------------------------------
(* The end of a process *)

\* Lines 484-491, or the exception leaving main: the process ends.
ProcessEnd ==
    /\ pc \in {"done", "raised"}
    /\ NoProcess
    /\ UNCHANGED <<disk, site, now, fetches, faults, obs>>

InScanLoop ==
    \/ pc \in {"scan_top", "scan_marker", "scan_goto", "scan_saved"}
    \/ pc \in {"save_open", "save_write", "save_replace"} /\ ret = "scan_saved"

\* The last page of which this scan run has written the marker, 0 for none:
\* the current page once save_resume_page has returned, the page before it
\* between lines 364 and 314, none while the marker is being written.
MarkedPage ==
    IF \/ pc \in {"scan_goto", "scan_saved"}
       \/ pc \in {"save_open", "save_write", "save_replace"} /\ ret = "scan_saved"
    THEN page_num
    ELSE IF pc = "scan_top" /\ ~obs.began THEN page_num - 1 ELSE 0

\* The process is stopped from outside (SIGKILL, power loss, Ctrl-C: neither
\* is an Exception, so the handler of lines 476-483 does not run).
Interrupt ==
    /\ pc # "idle"
    /\ faults < MaxFaults
    /\ faults' = faults + 1
    /\ NoProcess
    /\ obs' = IF InScanLoop
              THEN [obs EXCEPT !.began = FALSE, !.intr = page_num,
                               !.intrMark = MarkedPage,
                               !.start = 0, !.found = FALSE]
              ELSE IF pc = "fetching"
              THEN [obs EXCEPT !.began = FALSE, !.clean[cur] = FALSE,
                               !.cut = cur]
              ELSE IF pc \in {"rp_marker", "rp_goto", "rp_next", "rp_fetching",
                              "rp_write"}
              THEN [obs EXCEPT !.began = FALSE, !.auth = "none",
                               !.renewed = FALSE,
                               !.ripAt = page_num,
                               !.ripMarked = (pc # "rp_marker")]
              ELSE [obs EXCEPT !.began = FALSE, !.auth = "none",
                               !.renewed = FALSE,
                               !.start = 0, !.found = FALSE]
    /\ UNCHANGED <<disk, site, now, fetches>>

Next ==
    \/ ProcessStart
    \/ SaveOpen \/ SaveWrite \/ SaveReplace
    \/ ScanBegin \/ ScanHardCap \/ ScanMarkerOpen \/ ScanMarkerWrite
    \/ ScanPage \/ ScanPageRaises \/ ScanStop \/ ScanNext \/ ScanDone
    \/ DlBegin \/ DlFinish \/ DlReconcile \/ DlSkip \/ DlAttempt
    \/ FetchOk \/ FetchFails \/ FetchRaises
    \/ PartOpen \/ PartWrite \/ PartReplace
    \/ ProcessEnd
    \/ Interrupt

Spec == Init /\ [][Next]_vars

----------------------------------------------------------------------------
(* doj_2026.py with an operator who removes downloaded files *)

\* Between two runs a downloaded file is removed from the output directory
\* (what os.path.exists of lines 261, 265 and 392 then finds).
RemoveLocal ==
    /\ pc = "idle"
    /\ \E f \in EftaNames :
         /\ local[f] # "absent"
         /\ local' = [local EXCEPT ![f] = "absent"]
    /\ UNCHANGED <<indexFile, indexTmp, indexBad, resumeFile, part, site, now, mode, idx,
                   page_num, pages_no_new, queue, cur, resp, ret, last_num,
                   fetches, faults, obs, pc>>

NextRepair == Next \/ RemoveLocal

SpecRepair == Init /\ [][NextRepair]_vars

----------------------------------------------------------------------------
(* doj_2026.py started on an index path that holds any document *)

\* An index document an earlier run has left: page 1 scanned, F1 tried once.
SampleDoc ==
    Doc([last_scan_page |-> 1,
         files |-> [f \in AllNames |->
                      IF f = F1
                      THEN [NewRec("A", 1, 1) EXCEPT !.attempts = 1,
                                                    !.last_error = "HTTP 404"]
                      ELSE NoRec]])

\* The index path holds nothing, a document that does not parse, or a
\* document; the marker is the one of the run that left it.
InitLoad ==
    /\ indexFile \in {Absent, Partial, SampleDoc}
    /\ indexTmp = Absent
    /\ indexBad = Absent
    /\ resumeFile = IF indexFile = Absent THEN NoMarker ELSE Marker(2)
    /\ local = [f \in AllNames |-> "absent"]
    /\ part = [f \in AllNames |-> "absent"]
    /\ site = Listing(1, 2)
    /\ now = 1
    /\ pc = "idle"
    /\ mode = "none"
    /\ idx = FreshIndex
    /\ page_num = 0
    /\ pages_no_new = 0
    /\ queue = <<>>
    /\ cur = "none"
    /\ resp = 0
    /\ ret = "none"
    /\ last_num = 0
    /\ fetches = [f \in AllNames |-> 0]
    /\ faults = 0
    /\ obs = ObsInit

SpecLoad == InitLoad /\ [][Next]_vars

----------------------------------------------------------------------------
(* doj_2026.py: the order of one download pass *)

\* The sequences that hold every member of S once.
RECURSIVE Perms(_)
Perms(S) ==
    IF S = {} THEN {<<>>}
    ELSE UNION {{<<x>> \o t : t \in Perms(S \ {x})} : x \in S}

\* Where sorted() puts one more item: behind the items whose key is not
\* greater (the sort is stable).
RECURSIVE Insert(_, _)
Insert(x, s) ==
    IF s = <<>> THEN <<x>>
    ELSE IF KeyLess(x, Head(s)) THEN <<x>> \o s
    ELSE <<Head(s)>> \o Insert(x, Tail(s))

\* sorted(files.items(), key=sort_key), line 384, of the items in the order
\* the dict holds them.
RECURSIVE sorted_items(_)
sorted_items(items) ==
    IF items = <<>> THEN <<>>
    ELSE Insert(items[Len(items)],
                sorted_items(SubSeq(items, 1, Len(items) - 1)))

\* A scan of page 1 has found the files of 'inserted' in this order, some of
\* them are in the output directory already (another script fetched them),
\* and process_dataset has loaded the index for a download pass.
InitOrder ==
    /\ \E N \in SUBSET AllNames \ {{}} :
         /\ \E o \in Perms(N) :
              /\ obs = [ObsInit EXCEPT !.inserted = o]
              /\ site = [p \in Pages |->
                           IF p = 1 THEN [i \in 1 .. Len(o) |-> Link(o[i], "A")]
                           ELSE <<>>]
         /\ idx = [last_scan_page |-> 1,
                   files |-> [f \in AllNames |->
                                IF f \in N THEN NewRec("A", 1, 1) ELSE NoRec]]
         /\ \E L \in SUBSET (N \ {OTHER_PDF}) :
              local = [f \in AllNames |->
                         IF f \in L THEN "complete" ELSE "absent"]
    /\ indexFile = Doc(idx)
    /\ indexTmp = Absent
    /\ indexBad = Absent
    /\ resumeFile = Marker(2)
    /\ part = [f \in AllNames |-> "absent"]
    /\ now = 2
    /\ pc = "dl_begin"
    /\ mode = "download"
    /\ page_num = 0
    /\ pages_no_new = 0
    /\ queue = <<>>
    /\ cur = "none"
    /\ resp = 0
    /\ ret = "none"
    /\ last_num = 0
    /\ fetches = [f \in AllNames |-> 0]
    /\ faults = 0

\* Lines 375-384: the order of the pass, from the items as the dict holds
\* them.
DlBeginItems ==
    /\ pc = "dl_begin"
    /\ queue' = sorted_items(obs.inserted)
    /\ pc' = "dl_next"
    /\ obs' = [obs EXCEPT !.acted = <<>>]
    /\ UNCHANGED <<disk, fixed, mode, idx, scanMem, cur, resp, ret, fetches,
                   faults>>

NextOrder ==
    \/ DlBeginItems \/ DlFinish \/ DlReconcile \/ DlSkip \/ DlAttempt
    \/ FetchOk \/ FetchFails \/ FetchRaises
    \/ PartOpen \/ PartWrite \/ PartReplace
    \/ SaveOpen \/ SaveWrite \/ SaveReplace

SpecOrder == InitOrder /\ [][NextOrder]_vars

----------------------------------------------------------------------------
(* doj_2026.py after a run that was stopped while it wrote a '.part' *)

\* The index a run of Spec has left on Listing(1, 2): the scan stopped by the
\* streak rule, the request for F1 was answered by a 404, and the process
\* was stopped while it wrote the body of F2.
InterruptedDoc ==
    Doc([last_scan_page |-> 2 + MAX_PAGES_WITH_NO_NEW_PDFS,
         files |-> [f \in AllNames |->
                      IF f = F1
                      THEN [NewRec("B", 2, 1) EXCEPT !.attempts = 1,
                                                    !.last_error = "HTTP 404"]
                      ELSE IF f = F2 THEN NewRec("A", 2, 1)
                      ELSE NoRec]])

\* What that run has left: the index, the marker, and EFTA00000002.pdf.part.
InitOrphan ==
    /\ indexFile = InterruptedDoc
    /\ indexTmp = Absent
    /\ indexBad = Absent
    /\ resumeFile = Marker(2 + MAX_PAGES_WITH_NO_NEW_PDFS)
    /\ local = [f \in AllNames |-> "absent"]
    /\ part = [f \in AllNames |-> IF f = F2 THEN "partial" ELSE "absent"]
    /\ site = Listing(1, 2)
    /\ now = 1
    /\ pc = "idle"
    /\ mode = "none"
    /\ idx = FreshIndex
    /\ page_num = 0
    /\ pages_no_new = 0
    /\ queue = <<>>
    /\ cur = "none"
    /\ resp = 0
    /\ ret = "none"
    /\ last_num = 0
    /\ fetches = [f \in AllNames |-> IF f \in EftaNames THEN 1 ELSE 0]
    /\ faults = 0
    /\ obs = ObsInit

\* The steps of Next but ScanStop: a scan that starts at the marker of that
\* run reaches MAX_PAGES_HARD_CAP before the streak rule can stop it.
NextOrphan ==
    \/ ProcessStart
    \/ SaveOpen \/ SaveWrite \/ SaveReplace
    \/ ScanBegin \/ ScanHardCap \/ ScanMarkerOpen \/ ScanMarkerWrite
    \/ ScanPage \/ ScanPageRaises \/ ScanNext \/ ScanDone
    \/ DlBegin \/ DlFinish \/ DlReconcile \/ DlSkip \/ DlAttempt
    \/ FetchOk \/ FetchFails \/ FetchRaises
    \/ PartOpen \/ PartWrite \/ PartReplace
    \/ ProcessEnd
    \/ Interrupt

SpecOrphan == InitOrphan /\ [][NextOrphan]_vars

----------------------------------------------------------------------------
(* doj_2026.py: scan runs with a Lister that answers anything *)

\* What page.goto and eval_on_selector_all (lines 318-323) may return for a
\* page: no link, or links to PDFs.
Answers ==
    {<<>>, <<Link(F1, "A"), Link(OTHER_PDF, "A")>>, <<Link(F2, "A")>>}

\* The listing changes before the page is loaded: whatever the page number,
\* the Lister may answer any of Answers.
ListerAnswers ==
    /\ pc = "scan_goto"
    /\ \E l \in Answers :
         site' = [p \in Pages |-> IF p = page_num THEN l ELSE <<>>]
    /\ site' # site
    /\ UNCHANGED <<disk, now, last_num, mode, idx, scanMem, dlMem, pc, ret,
                   fetches, faults, obs>>

\* process_dataset is called for a scan (option 1 of the menu).
ScanStart == ProcessStart /\ mode' = "scan"

\* The steps of a scan run that the process takes by itself.
ScanRun ==
    \/ ScanBegin \/ ScanHardCap \/ ScanMarkerOpen \/ ScanMarkerWrite
    \/ ScanPage \/ ScanStop \/ ScanNext \/ ScanDone
    \/ SaveOpen \/ SaveWrite \/ SaveReplace

NextLister ==
    \/ ScanStart
    \/ ScanBegin \/ ScanHardCap \/ ScanMarkerOpen \/ ScanMarkerWrite
    \/ ListerAnswers \/ ScanPage \/ ScanPageRaises
    \/ ScanStop \/ ScanNext \/ ScanDone
    \/ SaveOpen \/ SaveWrite \/ SaveReplace
    \/ ProcessEnd
    \/ Interrupt

\* A process that is not stopped goes on, and the Lister answers or raises
\* (page.goto has a timeout).
SpecLister == Init /\ [][NextLister]_vars /\ WF_vars(ScanRun)

----------------------------------------------------------------------------
(* The two earlier scripts, which keep no index *)

\* What doj_rip.py and doj_fix_missing.py have no part in.
indexState == <<indexFile, indexTmp, indexBad, part, mode, idx, pages_no_new, ret>>

\* The links of a listing page; a page the site does not have lists nothing.
hrefs(p) == IF p \in DOMAIN site THEN site[p] ELSE <<>>

\* sorted(...) of file names, doj_fix_missing.py:104.
RECURSIVE SortedLex(_)
SortedLex(S) ==
    IF S = {} THEN <<>>
    ELSE LET m == CHOOSE x \in S : \A y \in S \ {x} : LexRank(x) < LexRank(y)
         IN <<m>> \o SortedLex(S \ {m})

\* get_local_files, doj_fix_missing.py:31-37.
get_local_files == {f \in AllNames : local[f] # "absent"}

\* doj_fix_missing.py:80-98: the files the pages 1..END_PAGE list.
online_files ==
    {hrefs(p)[i].name : <<p, i>> \in
        {<<p, i>> \in (1 .. END_PAGE) \X (1 .. 3) : i <= Len(hrefs(p))}}

----------------------------------------------------------------------------
(* doj_fix_missing.py: main *)

\* Lines 70-110: the local files, a session, the listing, the missing files.
FixStart ==
    /\ pc = "idle"
    /\ queue' = SortedLex(online_files \ get_local_files)
    /\ pc' = "fx_next"
    /\ UNCHANGED <<indexState, resumeFile, local, site, now, page_num, cur,
                   resp, last_num, fetches, faults, obs>>

\* Lines 107-110 and 140-141: nothing (more) is missing.
FixDone ==
    /\ pc = "fx_next"
    /\ queue = <<>>
    /\ NoProcess
    /\ obs' = [obs EXCEPT !.auth = "none", !.renewed = FALSE]
    /\ UNCHANGED <<indexFile, indexTmp, indexBad, resumeFile, local, part, site, now,
                   fetches, faults>>

\* Lines 113-121: the next missing file is requested.
FixFetch ==
    /\ pc = "fx_next"
    /\ queue # <<>>
    /\ cur' = Head(queue)
    /\ queue' = Tail(queue)
    /\ resp' = 0
    /\ pc' = "fx_fetching"
    /\ UNCHANGED <<indexState, resumeFile, local, site, now, page_num,
                   last_num, fetches, faults, obs>>

\* Lines 123-124: a success; open(out_path, "wb") creates the destination.
FixFetchOk ==
    /\ pc = "fx_fetching"
    /\ resp' = 200
    /\ local' = [local EXCEPT ![cur] = "partial"]
    /\ pc' = "fx_write"
    /\ obs' = [obs EXCEPT !.auth = "none", !.renewed = FALSE]
    /\ UNCHANGED <<indexState, resumeFile, site, now, page_num, queue, cur,
                   last_num, fetches, faults>>

\* Lines 125-128: the body is awaited, written, and the file closed.
FixWrite ==
    /\ pc = "fx_write"
    /\ local' = [local EXCEPT ![cur] = "complete"]
    /\ pc' = "fx_next"
    /\ UNCHANGED <<indexState, resumeFile, site, now, page_num, queue, cur,
                   resp, last_num, fetches, faults, obs>>

\* Lines 130-135: a 401; a fresh session, and the same file is requested.
FixFetchAuth ==
    /\ pc = "fx_fetching"
    /\ resp' = 401
    /\ obs' = [obs EXCEPT !.auth = cur, !.renewed = TRUE]
    /\ pc' = "fx_fetching"
    /\ UNCHANGED <<indexState, resumeFile, local, site, now, page_num, queue,
                   cur, last_num, fetches, faults>>

\* Lines 137-138: another status; the file is given up for this run.
FixFetchFails ==
    /\ pc = "fx_fetching"
    /\ resp' = 404
    /\ obs' = [obs EXCEPT !.auth = "none", !.renewed = FALSE]
    /\ pc' = "fx_next"
    /\ UNCHANGED <<indexState, resumeFile, local, site, now, page_num, queue,
                   cur, last_num, fetches, faults>>

NextFix ==
    \/ FixStart \/ FixDone \/ FixFetch
    \/ FixFetchOk \/ FixWrite \/ FixFetchAuth \/ FixFetchFails
    \/ Interrupt

SpecFix == Init /\ [][NextFix]_vars

----------------------------------------------------------------------------
(* doj_rip.py: main *)

\* find_last_downloaded_number, lines 33-50: the highest number among the
\* files of the output directory, whatever they hold; 0 for None.
find_last_downloaded_number ==
    LET nums == {extract_file_num(f) : f \in get_local_files} \ {0}
    IN IF nums = {} THEN 0 ELSE CHOOSE n \in nums : \A m \in nums : m <= n

\* load_resume_page of doj_rip.py, lines 53-65; 0 for None.
rip_load_resume_page(f) ==
    IF f.kind = "num" /\ 1 <= f.n /\ f.n <= END_PAGE THEN f.n ELSE 0

\* Lines 131-147: the first page that links the file numbered n, 0 for none.
page_of(n) ==
    LET ps == {p \in 1 .. END_PAGE :
                 \E i \in 1 .. Len(hrefs(p)) :
                     extract_file_num(hrefs(p)[i].name) = n}
    IN IF ps = {} THEN 0 ELSE CHOOSE p \in ps : \A q \in ps : p <= q

\* Lines 106-125: what is there, the marker, a session.
RipStart ==
    /\ pc = "idle"
    /\ last_num' = find_last_downloaded_number
    /\ IF rip_load_resume_page(resumeFile) # 0
       THEN /\ page_num' = rip_load_resume_page(resumeFile)
            /\ pc' = "rp_page"
       ELSE /\ page_num' = 1
            /\ pc' = "rp_locate"
    /\ obs' = [obs EXCEPT !.failed = {}, !.ripAt = 0, !.ripMarked = FALSE]
    /\ UNCHANGED <<indexState, resumeFile, local, site, now, queue, cur, resp,
                   fetches, faults>>

\* Lines 126-147: without a marker, the page of the last file is looked up
\* and written as the marker (the write is taken as one step here).
RipLocate ==
    /\ pc = "rp_locate"
    /\ IF last_num # 0 /\ page_of(last_num) # 0
       THEN /\ page_num' = page_of(last_num)
            /\ resumeFile' = Marker(page_of(last_num))
       ELSE /\ page_num' = 1
            /\ resumeFile' = resumeFile
    /\ pc' = "rp_page"
    /\ UNCHANGED <<indexState, local, site, now, queue, cur, resp, last_num,
                   fetches, faults, obs>>

\* Line 152 with no page left, lines 209-210.
RipFinish ==
    /\ pc = "rp_page"
    /\ page_num > END_PAGE
    /\ NoProcess
    /\ obs' = [obs EXCEPT !.auth = "none", !.renewed = FALSE]
    /\ UNCHANGED <<indexFile, indexTmp, indexBad, resumeFile, local, part, site, now,
                   fetches, faults>>

\* Line 153, save_resume_page: open(STATE_FILE, "w") truncates the marker.
RipMarkerOpen ==
    /\ pc = "rp_page"
    /\ page_num <= END_PAGE
    /\ resumeFile' = EmptyMarker
    /\ pc' = "rp_marker"
    /\ UNCHANGED <<indexState, local, site, now, page_num, queue, cur, resp,
                   last_num, fetches, faults, obs>>

\* Line 153, save_resume_page: the page number is written.
RipMarkerWrite ==
    /\ pc = "rp_marker"
    /\ resumeFile' = Marker(page_num)
    /\ pc' = "rp_goto"
    /\ UNCHANGED <<indexState, local, site, now, page_num, queue, cur, resp,
                   last_num, fetches, faults, obs>>

\* Lines 154-172: the links of the page.
RipGoto ==
    /\ pc = "rp_goto"
    /\ queue' = hrefs(page_num)
    /\ pc' = "rp_next"
    /\ UNCHANGED <<indexState, resumeFile, local, site, now, page_num, cur,
                   resp, last_num, fetches, faults, obs>>

\* Lines 174 and 207: no link left on the page; the next page.
RipPageDone ==
    /\ pc = "rp_next"
    /\ queue = <<>>
    /\ page_num' = page_num + 1
    /\ pc' = "rp_page"
    /\ UNCHANGED <<indexState, resumeFile, local, site, now, queue, cur, resp,
                   last_num, fetches, faults, obs>>

\* A mutant of rip_skips: the file numbered last_num is not skipped.
rip_skips_below(filename, last) ==
    \/ extract_file_num(filename) = 0
    \/ last # 0 /\ extract_file_num(filename) < last

\* Lines 177-183: not an EFTA file, or not above last_num.
rip_skips(filename, last) ==
    \/ extract_file_num(filename) = 0
    \/ last # 0 /\ extract_file_num(filename) <= last

RipSkip ==
    /\ pc = "rp_next"
    /\ queue # <<>>
    /\ rip_skips(Head(queue).name, last_num)
    /\ queue' = Tail(queue)
    /\ UNCHANGED <<indexState, resumeFile, local, site, now, page_num, cur,
                   resp, last_num, fetches, faults, obs, pc>>

\* Lines 185-188: the file is requested.
RipFetch ==
    /\ pc = "rp_next"
    /\ queue # <<>>
    /\ ~rip_skips(Head(queue).name, last_num)
    /\ cur' = Head(queue).name
    /\ queue' = Tail(queue)
    /\ resp' = 0
    /\ pc' = "rp_fetching"
    /\ UNCHANGED <<indexState, resumeFile, local, site, now, page_num,
                   last_num, fetches, faults, obs>>

\* Lines 190-191: a success; open(out_path, "wb") creates the destination.
RipFetchOk ==
    /\ pc = "rp_fetching"
    /\ resp' = 200
    /\ local' = [local EXCEPT ![cur] = "partial"]
    /\ pc' = "rp_write"
    /\ obs' = [obs EXCEPT !.auth = "none", !.renewed = FALSE]
    /\ UNCHANGED <<indexState, resumeFile, site, now, page_num, queue, cur,
                   last_num, fetches, faults>>

\* Lines 192-197: the body is awaited and written; last_num follows.
RipWrite ==
    /\ pc = "rp_write"
    /\ local' = [local EXCEPT ![cur] = "complete"]
    /\ last_num' = extract_file_num(cur)
    /\ pc' = "rp_next"
    /\ UNCHANGED <<indexState, resumeFile, site, now, page_num, queue, cur,
                   resp, fetches, faults, obs>>

\* Lines 199-203: a 401; a fresh session, then the next link.
RipFetchAuth ==
    /\ pc = "rp_fetching"
    /\ resp' = 401
    /\ obs' = [obs EXCEPT !.auth = cur, !.renewed = TRUE,
                          !.failed = @ \cup {cur}]
    /\ pc' = "rp_next"
    /\ UNCHANGED <<indexState, resumeFile, local, site, now, page_num, queue,
                   cur, last_num, fetches, faults>>

\* Line 205: another status; the next link.
RipFetchFails ==
    /\ pc = "rp_fetching"
    /\ resp' = 404
    /\ obs' = [obs EXCEPT !.auth = "none", !.renewed = FALSE,
                          !.failed = @ \cup {cur}]
    /\ pc' = "rp_next"
    /\ UNCHANGED <<indexState, resumeFile, local, site, now, page_num, queue,
                   cur, last_num, fetches, faults>>

NextRip ==
    \/ RipStart \/ RipLocate \/ RipFinish
    \/ RipMarkerOpen \/ RipMarkerWrite \/ RipGoto
    \/ RipPageDone \/ RipSkip \/ RipFetch
    \/ RipFetchOk \/ RipWrite \/ RipFetchAuth \/ RipFetchFails
    \/ Interrupt

SpecRip == Init /\ [][NextRip]_vars

----------------------------------------------------------------------------
(* upsert_index_entry applied by two scans of the same listing *)

\* Records the download pass leaves in the index: never tried, downloaded at
\* the first attempt, given up after MAX_DOWNLOAD_RETRIES failures.
SampleRecs ==
    {NoRec,
     NewRec("A", 1, 1),
     [NewRec("A", 1, 1) EXCEPT !.downloaded = TRUE, !.downloaded_at = 1,
                               !.bytes = getsize("complete"), !.attempts = 1],
     [NewRec("B", 2, 1) EXCEPT !.attempts = MAX_DOWNLOAD_RETRIES,
                               !.last_error = "HTTP 404"]}

InitRescan ==
    /\ indexFile = Absent
    /\ indexTmp = Absent
    /\ indexBad = Absent
    /\ resumeFile = NoMarker
    /\ local = [f \in AllNames |-> "absent"]
    /\ part = [f \in AllNames |-> "absent"]
    /\ site \in Sites
    /\ now = 1
    /\ pc = "rs_page"
    /\ mode = "first"
    /\ \E r1 \in SampleRecs, r2 \in SampleRecs :
         idx = [last_scan_page |-> 0,
                files |-> [f \in AllNames |->
                             IF f = F1 THEN r1 ELSE IF f = F2 THEN r2 ELSE NoRec]]
    /\ page_num = 1
    /\ pages_no_new = 0
    /\ queue = <<>>
    /\ cur = "none"
    /\ resp = 0
    /\ ret = "none"
    /\ last_num = 0
    /\ fetches = [f \in AllNames |-> 0]
    /\ faults = 0
    /\ obs = ObsInit

\* datetime.now() moves on.
Tick ==
    /\ now < MaxClock
    /\ now' = now + 1
    /\ UNCHANGED <<disk, site, pc, mode, idx, scanMem, dlMem, ret, last_num,
                   fetches, faults, obs>>

\* Lines 318-336: the links of the page.
RescanPage ==
    /\ pc = "rs_page"
    /\ page_num <= MAX_PAGES_HARD_CAP
    /\ queue' = site[page_num]
    /\ pc' = "rs_link"
    /\ UNCHANGED <<disk, fixed, mode, idx, scanMem, cur, resp, ret, fetches,
                   faults, obs>>

\* Lines 339-342: a link that is not an EFTA file is passed over.
RescanSkip ==
    /\ pc = "rs_link"
    /\ queue # <<>>
    /\ extract_file_num(Head(queue).name) = 0
    /\ queue' = Tail(queue)
    /\ UNCHANGED <<disk, fixed, pc, mode, idx, scanMem, cur, resp, ret, fetches,
                   faults, obs>>

\* Lines 343-344: one call of upsert_index_entry.
RescanUpsert ==
    /\ pc = "rs_link"
    /\ queue # <<>>
    /\ extract_file_num(Head(queue).name) # 0
    /\ LET l == Head(queue)
           u == upsert_index_entry(idx.files, l.name, l.url, page_num, now)
       IN /\ idx' = [idx EXCEPT !.files = u.files]
          /\ obs' = [obs EXCEPT !.isNew = u.isNew,
                                !.news = IF mode = "second" /\ u.isNew
                                         THEN 1 ELSE @]
          /\ cur' = l.name
    /\ queue' = Tail(queue)
    /\ UNCHANGED <<disk, fixed, pc, mode, scanMem, resp, ret, fetches, faults>>

\* Lines 355 and 364: the page is done.
RescanPageDone ==
    /\ pc = "rs_link"
    /\ queue = <<>>
    /\ idx' = [idx EXCEPT !.last_scan_page = page_num]
    /\ page_num' = page_num + 1
    /\ pc' = "rs_page"
    /\ UNCHANGED <<disk, fixed, mode, pages_no_new, dlMem, ret, fetches, faults,
                   obs>>

\* The first scan is over: the same pages are scanned again.
RescanAgain ==
    /\ pc = "rs_page"
    /\ page_num > MAX_PAGES_HARD_CAP
    /\ mode = "first"
    /\ mode' = "second"
    /\ page_num' = 1
    /\ obs' = [obs EXCEPT !.first = idx.files]
    /\ UNCHANGED <<disk, fixed, pc, idx, pages_no_new, dlMem, ret, fetches,
                   faults>>

\* The second scan is over.
RescanEnd ==
    /\ pc = "rs_page"
    /\ page_num > MAX_PAGES_HARD_CAP
    /\ mode = "second"
    /\ pc' = "rs_done"
    /\ UNCHANGED <<disk, fixed, mode, idx, scanMem, dlMem, ret, fetches, faults,
                   obs>>

NextRescan ==
    \/ Tick
    \/ RescanPage \/ RescanSkip \/ RescanUpsert \/ RescanPageDone
    \/ RescanAgain \/ RescanEnd

SpecRescan == InitRescan /\ [][NextRescan]_vars

----------------------------------------------------------------------------
(* doj_2026.py: main, the loop over the selected datasets *)

\* The files and the memory of one dataset, which the loop of main does not
\* touch but through process_dataset.
datasetState == <<indexFile, indexTmp, indexBad, resumeFile, local, part, site, now, idx,
                  page_num, pages_no_new, resp, last_num, fetches>>

\* sorted(selected), lines 152 and 547.
RECURSIVE SortedIds(_)
SortedIds(S) ==
    IF S = {} THEN <<>>
    ELSE LET m == CHOOSE x \in S : \A y \in S : x <= y
         IN <<m>> \o SortedIds(S \ {m})

\* Lines 551-563: the datasets and the mode are chosen, the browser starts.
MainStart ==
    /\ pc = "idle"
    /\ \E S \in (SUBSET (1 .. LAST_DATASET)) \ {{}} :
         /\ queue' = SortedIds(S)
         /\ obs' = [obs EXCEPT !.chosen = SortedIds(S), !.started = <<>>]
    /\ \E m \in {"scan", "download", "sync"} : mode' = m
    /\ pc' = "main_loop"
    /\ UNCHANGED <<datasetState, cur, ret, faults>>

\* Lines 565-566 and 443-463: process_dataset is called for the next
\* dataset; it loads the index and obtains a session.
MainProcess ==
    /\ pc = "main_loop"
    /\ queue # <<>>
    /\ cur' = Head(queue)
    /\ queue' = Tail(queue)
    /\ obs' = [obs EXCEPT !.started = Append(@, Head(queue))]
    /\ pc' = IF mode = "download" THEN "pd_download" ELSE "pd_scan"
    /\ UNCHANGED <<datasetState, mode, ret, faults>>

\* Lines 465-466: scan_dataset_pages returns.
MainScanReturns ==
    /\ pc = "pd_scan"
    /\ pc' = IF mode = "sync" THEN "pd_download" ELSE "pd_save"
    /\ UNCHANGED <<datasetState, mode, queue, cur, ret, faults, obs>>

\* Lines 468-471: download_missing_from_index returns.
MainDownloadReturns ==
    /\ pc = "pd_download"
    /\ pc' = "pd_save"
    /\ UNCHANGED <<datasetState, mode, queue, cur, ret, faults, obs>>

\* Lines 474 and 484-491: the final save, the context is closed, and
\* process_dataset returns to the loop.
MainProcessReturns ==
    /\ pc = "pd_save"
    /\ pc' = "main_loop"
    /\ UNCHANGED <<datasetState, mode, queue, cur, ret, faults, obs>>

\* Lines 462-470: the Lister or the Fetcher fails while the dataset is
\* scanned or downloaded; the exception reaches the handler of line 476.
MainProcessFails ==
    /\ pc \in {"pd_scan", "pd_download"}
    /\ faults' = faults + 1
    /\ pc' = "pd_handler"
    /\ UNCHANGED <<datasetState, mode, queue, cur, ret, obs>>

\* Lines 476-489 and 565-566: the handler saves the index and raises again;
\* nothing catches the exception in the loop of main or around it, so main
\* ends with the datasets that are left unprocessed.
MainRaises ==
    /\ pc = "pd_handler"
    /\ ret' = "raised"
    /\ pc' = "main_ended"
    /\ UNCHANGED <<datasetState, mode, queue, cur, faults, obs>>

\* Lines 568-570: the loop is over.
MainDone ==
    /\ pc = "main_loop"
    /\ queue = <<>>
    /\ ret' = "complete"
    /\ pc' = "main_ended"
    /\ UNCHANGED <<datasetState, mode, queue, cur, faults, obs>>

NextMain ==
    \/ MainStart \/ MainProcess
    \/ MainScanReturns \/ MainDownloadReturns \/ MainProcessReturns
    \/ MainProcessFails \/ MainRaises \/ MainDone

SpecMain == Init /\ [][NextMain]_vars

----------------------------------------------------------------------------
(* Claims about doj_2026.py *)

\* C1 (attempt bound): a file whose every request was answered by a failure
\* status has had at most MAX_DOWNLOAD_RETRIES requests issued for it, over
\* any number of download passes and restarts of the process.
C1_AttemptBound ==
    \A f \in EftaNames :
        obs.clean[f] /\ ~(pc = "fetching" /\ cur = f)
            => fetches[f] <= MAX_DOWNLOAD_RETRIES

\* C2 as stated (resume exactness): a scan run interrupted while page_num was
\* P is followed by a scan run that starts at P.
C2_ResumeAtCurrentPage ==
    obs.began /\ obs.intr # 0 => page_num = obs.intr

\* C2 amended: a scan run interrupted after it had written the marker of page
\* P, and before it began to write the marker of the next page, is followed
\* by a scan run that starts at P; a scan run interrupted before its first
\* marker or while it wrote a marker, page_num being P, is followed by a scan
\* run that starts at P or at P - 1.
C2_ResumeAtMarkedPage ==
    obs.began /\ obs.intr # 0 =>
        /\ obs.intrMark # 0 => page_num = obs.intrMark
        /\ obs.intrMark = 0 => page_num \in {obs.intr - 1, obs.intr}
        /\ page_num >= 1

\* C2 witness: a scan run interrupted on a page after the first has been
\* followed by a scan run, which starts at that page.
C2_Witness ==
    obs.began /\ obs.intrMark > 1 /\ page_num = obs.intrMark /\ pc = "scan_top"

\* C3 (stopping heuristic): in a scan run the streak is the number of pages
\* scanned last, in a row, that brought no new file; no page is begun once
\* the streak has reached the threshold, and the streak rule ends the run
\* only with the streak at the threshold.
C3_StoppingHeuristic ==
    /\ InScanLoop \/ pc = "scan_done" => pages_no_new = obs.zeroRun
    /\ pc \in {"scan_top", "scan_marker", "scan_goto"}
           => pages_no_new < MAX_PAGES_WITH_NO_NEW_PDFS
    /\ pc = "scan_done" /\ obs.stop = "streak"
           => pages_no_new = MAX_PAGES_WITH_NO_NEW_PDFS

\* C3 witness: after a page that brought a new file, six pages in a row
\* brought none and the run stopped on the sixth.
C3_Witness ==
    /\ pc = "scan_done" /\ obs.stop = "streak"
    /\ idx.files[F1].present /\ idx.files[F1].page = 2
    /\ page_num = 2 + MAX_PAGES_WITH_NO_NEW_PDFS
    /\ pages_no_new = MAX_PAGES_WITH_NO_NEW_PDFS

\* The files of the index a download pass has already visited.
Visited == {f \in EftaNames : idx.files[f].present
                              /\ \A i \in 1 .. Len(queue) : queue[i] # f}

\* C5 (reconciliation): no request is in flight for a file that exists
\* locally, and once a download pass has gone past a file that exists
\* locally, its record is marked downloaded, with the time and the size, in
\* memory and in the index document.
C5_Reconciliation ==
    /\ pc = "fetching" => local[cur] = "absent"
    /\ pc = "dl_next" =>
         \A f \in Visited :
             local[f] # "absent" =>
                 /\ idx.files[f].downloaded
                 /\ indexFile.kind = "doc"
                 /\ indexFile.data.files[f].present
                 /\ indexFile.data.files[f].downloaded
                 /\ indexFile.data.files[f].downloaded_at # 0
                 /\ indexFile.data.files[f].bytes = getsize(local[f])

\* C5 witness: a pass has just reconciled F1, which was fetched by a run that
\* was interrupted before it saved the index.
C5_Witness ==
    /\ pc = "dl_next" /\ cur = F1 /\ resp = 0
    /\ local[F1] = "complete"
    /\ indexFile.data.files[F1].downloaded
    /\ indexFile.data.files[F1].attempts = 0
    /\ fetches[F1] = 1

\* C7 (atomic index persistence): the index path never holds a partly written
\* document, and its content changes only by the replace that ends a save,
\* to the complete document of the index passed to that save (or by a
\* document that does not parse being moved aside when it is loaded).
C7_AtomicIndex ==
    /\ [](indexFile.kind # "partial")
    /\ [][indexFile' # indexFile =>
            \/ /\ pc = "save_replace"
               /\ indexTmp = Doc(idx)
               /\ indexFile' = Doc(idx)
            \/ /\ pc = "idle"
               /\ indexFile.kind = "partial"
               /\ indexFile' = Absent]_vars

\* C7 witness: a save was interrupted while it wrote the temporary sibling,
\* and the index path holds the document of an earlier save.
C7_Witness ==
    /\ pc = "idle" /\ faults > 0 /\ mode = "none"
    /\ indexTmp.kind = "partial"
    /\ indexFile.kind = "doc"

\* C9 (an authorization failure does not consume the retry budget): once a
\* 401 has been handled, the record's attempts are what they were before the
\* request.
C9_AuthKeepsBudget ==
    pc = "save_open" /\ ret = "dl_next" /\ resp = 401
        => idx.files[cur].attempts = obs.att0

----------------------------------------------------------------------------
(* Claims about the downloads of all three scripts *)

\* C4 (no partial artifacts): the destination path of a file never holds a
\* partly written body.
C4_NoPartialArtifacts ==
    \A f \in AllNames : local[f] # "partial"

\* C10 (session renewal on an authorization failure): once a request has been
\* answered by a 401, a session is obtained and the next request is for the
\* same file.
C10_RetrySameFile ==
    pc \in {"rp_fetching", "fx_fetching", "fetching"} /\ obs.auth # "none"
        => obs.renewed /\ cur = obs.auth

\* doj_rip.py: a link is requested only if last_num is None or the number of
\* its file is above last_num; last_num starts as the highest number in the
\* output directory and changes only to the number of a file just saved,
\* which is above it; a failure status changes neither last_num nor a file
\* and passes to the next link; and no request is in flight for a file while
\* a file of the same or a higher number is in the output directory.
RipRule ==
    /\ [][pc = "rp_next" /\ pc' = "rp_fetching" =>
            /\ cur' = Head(queue).name /\ queue' = Tail(queue)
            /\ extract_file_num(cur') # 0
            /\ last_num = 0 \/ extract_file_num(cur') > last_num]_vars
    /\ [][pc = "idle" /\ pc' # "idle" =>
            last_num' = find_last_downloaded_number]_vars
    /\ [][last_num' # last_num /\ pc # "idle" /\ pc' # "idle" =>
            /\ pc = "rp_write" /\ local'[cur] = "complete"
            /\ last_num' = extract_file_num(cur) /\ last_num' > last_num]_vars
    /\ [][pc = "rp_fetching" /\ resp' \in {401, 404} =>
            /\ pc' = "rp_next" /\ queue' = queue
            /\ last_num' = last_num /\ local' = local]_vars
    /\ [](pc = "rp_fetching" =>
            \A g \in get_local_files \ {OTHER_PDF} :
                extract_file_num(g) < extract_file_num(cur))

\* C25 as amended (doj_rip.py, last_num): RipRule; a file whose request
\* failed is not requested again at that link, and is requested again in
\* that run only at a later link that lists it, if no file of its number or
\* above has been saved; a run that was stopped after it had written the
\* marker of the page in flight restarts at that page, and one that was
\* stopped while it rewrote the marker restarts from the search for the
\* last file, at page 1 if there is none.
C25_RipLastNum ==
    /\ RipRule
    /\ [][pc = "rp_next" /\ pc' = "rp_fetching" /\ cur' \in obs.failed =>
            /\ Head(queue).name = cur'
            /\ \A g \in get_local_files \ {OTHER_PDF} :
                  extract_file_num(g) < extract_file_num(cur')]_vars
    /\ [][pc = "idle" /\ pc' # "idle" /\ obs.ripAt # 0 =>
            IF obs.ripMarked
            THEN pc' = "rp_page" /\ page_num' = obs.ripAt
            ELSE pc' = "rp_locate" /\ page_num' = 1]_vars

\* C25 witness: the request for F1 at its link of page 1 was answered by a
\* failure, so was the request for F2 on page 2, and F1 is requested again
\* in the same run at its second link.
C25_Witness ==
    /\ pc = "rp_fetching" /\ cur = F1 /\ page_num = 2
    /\ obs.failed = {F1, F2} /\ last_num = 0
    /\ get_local_files = {}

\* C25 as stated: RipRule; a file whose request failed is not requested
\* again in that run; an interrupted run restarts at the page in flight.
C25_RipNoSecondFetch ==
    /\ RipRule
    /\ [][pc = "rp_next" /\ pc' = "rp_fetching" => cur' \notin obs.failed]_vars
    /\ [][pc = "idle" /\ pc' # "idle" /\ obs.ripAt # 0 =>
            pc' = "rp_page" /\ page_num' = obs.ripAt]_vars

----------------------------------------------------------------------------
(* Claims about upsert_index_entry *)

\* A record but for its last_seen.
ButLastSeen(r) == IF r.present THEN [r EXCEPT !.last_seen = 0] ELSE r

\* C6 (scan idempotence): a second scan of the same listing leaves the file
\* names of the index as they were and every record as it was but for
\* last_seen, and none of its upserts returns True.
C6_ScanIdempotent ==
    pc = "rs_done" =>
        /\ \A f \in AllNames : ButLastSeen(idx.files[f]) = ButLastSeen(obs.first[f])
        /\ obs.news = 0

\* C6 witness: the second scan of a listing of two files has ended, a second
\* after the first, on an index that held a record given up by the download
\* pass.
C6_Witness ==
    /\ pc = "rs_done"
    /\ idx.files[F1].present /\ idx.files[F2].present
    /\ idx.files[F1].attempts = MAX_DOWNLOAD_RETRIES
    /\ idx.files[F1].last_seen # obs.first[F1].last_seen

\* The step is a call of upsert_index_entry.
IsUpsert ==
    /\ pc = "rs_link" /\ queue # <<>>
    /\ extract_file_num(Head(queue).name) # 0
    /\ queue' = Tail(queue)

\* C8 (upsert semantics): upsert of an unseen file name creates a record that
\* is not downloaded, with no attempt and no error, and returns True; upsert
\* of a seen one returns False and changes nothing of its record but url,
\* last_seen and page; either leaves every other record alone.
C8_UpsertSemantics ==
    [][IsUpsert =>
         LET l == Head(queue)
             old == idx.files[l.name]
             new == idx'.files[l.name]
         IN /\ \A g \in AllNames \ {l.name} : idx'.files[g] = idx.files[g]
            /\ new.present /\ new.url = l.url /\ new.page = page_num
            /\ new.last_seen = now
            /\ ~old.present =>
                 /\ obs'.isNew
                 /\ ~new.downloaded /\ new.attempts = 0
                 /\ new.last_error = "None"
            /\ old.present =>
                 /\ ~obs'.isNew
                 /\ new.downloaded = old.downloaded
                 /\ new.downloaded_at = old.downloaded_at
                 /\ new.bytes = old.bytes
                 /\ new.attempts = old.attempts
                 /\ new.last_error = old.last_error
                 /\ new.first_seen = old.first_seen]_vars

\* C8 witness: on page 2, a second after the index was written, F2 has been
\* upserted as new and then F1, downloaded before, as seen, under a new URL.
C8_Witness ==
    /\ pc = "rs_link" /\ queue = <<>> /\ page_num = 2 /\ mode = "first"
    /\ cur = F1 /\ ~obs.isNew
    /\ idx.files[F1].present /\ idx.files[F2].present
    /\ idx.files[F1].downloaded /\ idx.files[F1].attempts = 1
    /\ idx.files[F1].url = "B" /\ idx.files[F1].page = 2
    /\ idx.files[F1].first_seen = 1 /\ idx.files[F1].last_seen = 2
    /\ idx.files[F2].first_seen = 2 /\ idx.files[F2].attempts = 0

----------------------------------------------------------------------------
(* Claims about process_dataset *)

\* C12 (best-effort final save): when an unexpected failure of the scan or
\* of the download pass reaches the caller of process_dataset, the index
\* document is the in-memory index, with every record and every change of
\* status made before the failure.
C12_BestEffortSave ==
    pc = "raised" => indexFile = Doc(idx)

\* C12 witness: the first request for F1 failed without a response; the
\* attempt, counted in memory alone until then, is in the index document
\* when the failure is propagated.
C12_Witness ==
    /\ pc = "raised" /\ cur = F1 /\ fetches[F1] = 1
    /\ idx.files[F1].attempts = 1
    /\ indexFile.data.files[F1].attempts = 1

\* C15 (the attempt is counted before the fetch): once a process has been
\* stopped while the request of a download attempt was in flight, the index
\* document the next run reads has the attempts of that file one higher than
\* they were before the attempt.
C15_AttemptCountedOnCrash ==
    obs.cut # "none" =>
        /\ indexFile.kind = "doc"
        /\ indexFile.data.files[obs.cut].attempts = obs.att0 + 1

\* C16 (downloaded flag consistency): when a download pass has come to its
\* end, every record marked downloaded whose last request was not answered
\* by a failure has its local file, also if the file had been removed
\* after the download and whatever the attempts of the record.
C16_DownloadedHasFile ==
    pc = "dl_next" /\ queue = <<>> =>
        \A f \in EftaNames :
            /\ idx.files[f].present
            /\ idx.files[f].downloaded
            /\ idx.files[f].last_error = "None"
            => local[f] # "absent"

\* The attempts of a file in a document, 0 for a file it does not hold.
AttemptsIn(doc, f) ==
    IF doc.kind = "doc" /\ doc.data.files[f].present
    THEN doc.data.files[f].attempts ELSE 0

FailureStatus(r) == r \notin {0, 200}

\* C19 (ordinary download failure handling): a failure status leaves the
\* downloaded flag as it was, false, records "HTTP <status>" as last_error
\* and takes no file off the pass; the save that follows returns to the loop
\* of the pass with the same files left, and when the next file is
\* considered the index document holds the error.
C19_FailureHandling ==
    /\ [][pc = "fetching" /\ FailureStatus(resp') =>
            /\ queue' = queue /\ cur' = cur
            /\ ~idx'.files[cur].downloaded
            /\ idx'.files[cur].downloaded = idx.files[cur].downloaded
            /\ idx'.files[cur].last_error
                  = (IF resp' = 401 THEN "HTTP 401" ELSE "HTTP 404")
            /\ pc' = "save_open" /\ ret' = "dl_next"]_vars
    /\ [][FailureStatus(resp) /\ ret = "dl_next" /\ faults' = faults
            /\ pc \in {"save_open", "save_write", "save_replace"} =>
            /\ queue' = queue /\ idx' = idx
            /\ pc = "save_replace" => pc' = "dl_next"]_vars
    /\ [](pc = "dl_next" /\ FailureStatus(resp) =>
            /\ indexFile = Doc(idx)
            /\ indexFile.data.files[cur].last_error # "None"
            /\ ~indexFile.data.files[cur].downloaded)

\* C19 witness: the request for F1 was answered by a failure and, in the
\* same pass, the request for F2 is in flight.
C19_Witness ==
    /\ pc = "fetching" /\ cur = F2 /\ fetches[F2] = 1
    /\ fetches[F1] = 1 /\ idx.files[F1].attempts = 1
    /\ idx.files[F1].last_error = "HTTP 404"
    /\ indexFile.data.files[F1].last_error = "HTTP 404"

\* a comes before b: by the number in the name, and by the name (Python's
\* order of str) where the numbers are the same.
Before(a, b) ==
    \/ extract_file_num(a) < extract_file_num(b)
    \/ extract_file_num(a) = extract_file_num(b) /\ LexRank(a) < LexRank(b)

\* C20 (download order): in one download pass, each file a request or a
\* reconciliation is made for has a number, and of two files acted on the
\* later one has the greater number, or the same number and the greater
\* name; and the order of the pass is the same for every order in which the
\* index holds its files.
C20_DownloadOrder ==
    /\ [][pc = "dl_begin" /\ pc' = "dl_next" =>
            queue' = Sorted({f \in AllNames : idx.files[f].present})]_vars
    /\ [](\A i \in 1 .. Len(obs.acted) :
            /\ extract_file_num(obs.acted[i]) # 0
            /\ \A j \in 1 .. Len(obs.acted) :
                  i < j => Before(obs.acted[i], obs.acted[j]))
    /\ [][obs'.acted # obs.acted /\ pc = "dl_next" =>
            /\ obs'.acted = Append(obs.acted, cur')
            /\ pc' \in {"fetching", "save_open"}]_vars

\* C20 witness: the index held EFTA01.pdf before EFTA00000001.pdf and
\* EFTA00000002.pdf before both; the pass has fetched EFTA00000001.pdf, has
\* had a failure for EFTA01.pdf and reconciles EFTA00000002.pdf.
C20_Witness ==
    /\ obs.inserted = <<F2, OTHER_PDF, F1B, F1>>
    /\ obs.acted = <<F1, F1B, F2>>
    /\ pc = "save_open" /\ ret = "dl_next" /\ cur = F2
    /\ idx.files[F2].downloaded /\ fetches[F2] = 0
    /\ fetches[F1] = 1 /\ fetches[F1B] = 1
    /\ idx.files[F1].downloaded /\ idx.files[F1B].last_error = "HTTP 404"

\* The download of f is in flight: download_one is between lines 276 and 291.
DownloadInFlight(f) ==
    cur = f /\ pc \in {"fetching", "part_open", "part_write", "part_replace"}

\* The '.part' files in the output directory that no download in flight is
\* writing.
Orphans == {f \in AllNames : part[f] # "absent" /\ ~DownloadInFlight(f)}

\* C21 (orphaned temporary artifacts): at most one orphaned '.part' file
\* exists in the output directory, and while a request is in flight none
\* exists for the file requested.
C21_AtMostOneOrphan ==
    /\ Cardinality(Orphans) <= 1
    /\ pc = "fetching" => part[cur] = "absent"

\* C22 (scan termination and hard ceiling): whatever the Lister answers,
\* a scan run that has started comes to an end; when the loop is left it is
\* because the streak has reached MAX_PAGES_WITH_NO_NEW_PDFS or because the
\* page number is above MAX_PAGES_HARD_CAP; and no page above
\* MAX_PAGES_HARD_CAP is loaded or written to the resume marker.
C22_ScanTerminates ==
    /\ [](pc = "scan_done" =>
            \/ pages_no_new >= MAX_PAGES_WITH_NO_NEW_PDFS
            \/ page_num > MAX_PAGES_HARD_CAP)
    /\ [](pc \in {"scan_marker", "scan_goto"} =>
            page_num <= MAX_PAGES_HARD_CAP)
    /\ [](resumeFile.kind = "num" => resumeFile.n <= MAX_PAGES_HARD_CAP)
    /\ (pc = "scan_begin" ~> (pc \in {"scan_done", "idle"} \/ ret = "raised"))

\* C22 witness: the Lister has shown a file that was new often enough for
\* the streak to stay below the threshold up to the last page, and the loop
\* is left by the hard cap.
C22_Witness ==
    /\ pc = "scan_done"
    /\ page_num = MAX_PAGES_HARD_CAP + 1
    /\ pages_no_new < MAX_PAGES_WITH_NO_NEW_PDFS
    /\ resumeFile = Marker(MAX_PAGES_HARD_CAP)
    /\ idx.files[F1].present /\ idx.files[F1].page = 1
    /\ idx.files[F2].present /\ idx.files[F2].page = 4

\* The process is in download_missing_from_index, or in a run that only
\* downloads.
InDownload ==
    \/ pc \in {"dl_begin", "dl_next", "fetching", "part_open", "part_write",
                "part_replace"}
    \/ pc \in {"save_open", "save_write", "save_replace"} /\ ret = "dl_next"
    \/ mode = "download"

\* C23 (marker and last_scan_page): from fresh state files, whenever the
\* marker holds a page and the index document exists, the marker is
\* last_scan_page or last_scan_page + 1; last_scan_page of the document never
\* decreases; and no step of a download pass changes the marker or
\* last_scan_page.
C23_MarkerAheadByAtMostOne ==
    /\ [](resumeFile.kind = "num" /\ indexFile.kind = "doc" =>
            /\ resumeFile.n >= indexFile.data.last_scan_page
            /\ resumeFile.n <= indexFile.data.last_scan_page + 1)
    /\ [][safe_json_load(indexFile').last_scan_page
            >= safe_json_load(indexFile).last_scan_page]_vars
    /\ [][InDownload =>
            /\ resumeFile' = resumeFile
            /\ safe_json_load(indexFile').last_scan_page
                 = safe_json_load(indexFile).last_scan_page]_vars

\* C23 witness: a scan run was stopped after it had written the marker of
\* page 3 and before it saved that page; the next run downloads, and its
\* save has left page 2 in the document and 3 in the marker.
C23_Witness ==
    /\ faults = 1 /\ mode = "download" /\ pc = "dl_next"
    /\ fetches[F1] = 1 /\ resp = 404
    /\ resumeFile = Marker(3)
    /\ indexFile.kind = "doc" /\ indexFile.data.last_scan_page = 2
    /\ indexFile.data.files[F1].attempts = 1

\* The streak starts at 0 in every scan run, and a run the streak rule stops
\* has scanned at least MAX_PAGES_WITH_NO_NEW_PDFS pages.
StreakPerRun ==
    /\ obs.began => pages_no_new = 0
    /\ pc = "scan_done" /\ pages_no_new >= MAX_PAGES_WITH_NO_NEW_PDFS =>
         page_num - obs.start + 1 >= MAX_PAGES_WITH_NO_NEW_PDFS

\* A scan run that found no new file has returned.
QuietScanDone == pc = "scan_done" /\ obs.start > 0 /\ ~obs.found

\* The marker and last_scan_page, in memory and on disk, are at page p.
LeftAt(p) ==
    /\ resumeFile = Marker(p)
    /\ idx.last_scan_page = p
    /\ indexFile.kind = "doc" /\ indexFile.data.last_scan_page = p

\* C24 as amended (streak per run): the streak starts at 0 in every scan
\* run, so a run stopped by the streak rule has scanned at least 6 pages; a
\* run from page P that finds no new file scans P..P+5 and leaves the marker
\* and last_scan_page at P+5 when P+5 is not above MAX_PAGES_HARD_CAP, and
\* otherwise scans P..MAX_PAGES_HARD_CAP and leaves them at the cap, where
\* they stay.
C24_StreakPerRunCapped ==
    /\ StreakPerRun
    /\ QuietScanDone =>
         LET last == obs.start + MAX_PAGES_WITH_NO_NEW_PDFS - 1
         IN IF last <= MAX_PAGES_HARD_CAP
            THEN page_num = last /\ LeftAt(last)
            ELSE /\ page_num = MAX_PAGES_HARD_CAP + 1
                 /\ pages_no_new < MAX_PAGES_WITH_NO_NEW_PDFS
                 /\ LeftAt(MAX_PAGES_HARD_CAP)

\* C24 witness: a run was stopped at page 2; the next one has started at the
\* marker, 2, has found nothing new on pages 2..7 of an index that holds F1,
\* and has left the marker and last_scan_page at 7.
C24_Witness ==
    /\ QuietScanDone /\ faults = 1
    /\ obs.start = 2 /\ page_num = 7 /\ LeftAt(7)
    /\ pages_no_new = MAX_PAGES_WITH_NO_NEW_PDFS
    /\ idx.files[F1].present

\* C24 as stated: every scan run from page P that finds no new file scans
\* P..P+5 and leaves the marker and last_scan_page at P+5.
C24_StreakPerRun ==
    /\ StreakPerRun
    /\ QuietScanDone =>
         LET last == obs.start + MAX_PAGES_WITH_NO_NEW_PDFS - 1
         IN page_num = last /\ LeftAt(last)

\* The page of the scan run is in flight: its links are upserted in memory
\* and the save of line 358 has not returned.
PageInFlight ==
    pc \in {"save_open", "save_write", "save_replace"} /\ ret = "scan_saved"

\* The file names a listing page shows.
NamesOn(p) == {site[p][i].name : i \in 1 .. Len(site[p])}

\* C14 (per-page crash safety of scanning): at every point of a scan run the
\* index document holds the in-memory index but for the records and the
\* last_scan_page of the one page in flight, once the save of a page has
\* returned the index document has that page as last_scan_page, and from the
\* marker write of a page to the end of the page the resume marker holds
\* that page.
C14_PerPageCrashSafety ==
    InScanLoop =>
        LET d == safe_json_load(indexFile)
        IN /\ ~PageInFlight => d = idx
           /\ PageInFlight =>
                 \A f \in AllNames :
                     d.files[f] # idx.files[f] => f \in NamesOn(page_num)
           /\ pc = "scan_saved" =>
                 /\ indexFile.kind = "doc"
                 /\ indexFile.data.last_scan_page = page_num
           /\ pc \in {"scan_goto", "scan_saved"} \/ PageInFlight
                 => resumeFile = Marker(page_num)

\* C14 witness: a scan run was interrupted while it saved the index after
\* page 2; the index document holds F1 of page 1 and last_scan_page 1, and
\* not F2 of page 2.
C14_Witness ==
    /\ pc = "idle" /\ obs.intr = 2 /\ obs.intrMark = 2
    /\ indexTmp.kind # "absent"
    /\ indexFile.kind = "doc" /\ indexFile.data.last_scan_page = 1
    /\ indexFile.data.files[F1].present /\ ~indexFile.data.files[F2].present
    /\ F2 \in NamesOn(2)

\* The greatest element of a set of numbers.
MaxOf(S) == CHOOSE x \in S : \A y \in S : y <= x

----------------------------------------------------------------------------
(* Claims about main *)

\* C11 (collection failure isolation): when main has ended, process_dataset
\* has been called for every selected dataset, in the selected order, also
\* when the processing of one of them ended in an unexpected failure.
C11_FailureIsolation ==
    pc = "main_ended" => obs.started = obs.chosen

====
